---- MODULE Spec2Model ----
(***************************************************************************)
(* Ribbindexer (src/Ribbindexer.py): the indexing engine, the retrieval    *)
(* engine and the catalog (SQLite table "files") of DocRetrieverApp.       *)
(*                                                                         *)
(* Strings are sequences of one-character strings, so that lower(),        *)
(* strip(), split(), os.path.splitext, os.path.basename and SQL LIKE are   *)
(* computed as the library computes them.                                  *)
(***************************************************************************)
EXTENDS Integers, Sequences, FiniteSets, TLC

(***************************************************************************)
(* Bounds of the model.                                                    *)
(***************************************************************************)
\* number of files of FilePool that may exist on the indexed drive
MaxFiles == 2
\* number of index_directory runs in a behaviour of SpecIndex
MaxRuns == 2
\* number of changes of the file tree between two runs
MaxChanges == 1
\* number of background threads that may be pending at the same time
MaxThreads == 2

(***************************************************************************)
(* String primitives.                                                      *)
(***************************************************************************)
UpperChars == <<"A","B","C","D","E","F","G","H","I","J","K","L","M",
                "N","O","P","Q","R","S","T","U","V","W","X","Y","Z">>
LowerChars == <<"a","b","c","d","e","f","g","h","i","j","k","l","m",
                "n","o","p","q","r","s","t","u","v","w","x","y","z">>

\* str.lower() on one character
LowerChar(c) ==
    IF \E i \in 1..Len(UpperChars) : UpperChars[i] = c
    THEN LowerChars[CHOOSE i \in 1..Len(UpperChars) : UpperChars[i] = c]
    ELSE c

\* str.lower()
Lower(s) == [i \in 1..Len(s) |-> LowerChar(s[i])]

RECURSIVE LStrip(_)
LStrip(s) == IF s # <<>> /\ Head(s) = " " THEN LStrip(Tail(s)) ELSE s

RECURSIVE RStrip(_)
RStrip(s) ==
    IF s # <<>> /\ s[Len(s)] = " " THEN RStrip(SubSeq(s, 1, Len(s) - 1)) ELSE s

\* str.strip()
Strip(s) == RStrip(LStrip(s))

\* str.split(sep): the pieces between the separators, empty pieces kept
RECURSIVE SplitAcc(_, _, _)
SplitAcc(s, sep, cur) ==
    IF s = <<>> THEN <<cur>>
    ELSE IF Head(s) = sep THEN <<cur>> \o SplitAcc(Tail(s), sep, <<>>)
    ELSE SplitAcc(Tail(s), sep, Append(cur, Head(s)))

Split(s, sep) == SplitAcc(s, sep, <<>>)

\* the positions of character c in s
Positions(s, c) == {i \in 1..Len(s) : s[i] = c}

SetMax(S) == CHOOSE x \in S : \A y \in S : y <= x
SetMin(S) == CHOOSE x \in S : \A y \in S : x <= y

\* os.path.basename: what follows the last separator
Basename(p) ==
    IF Positions(p, "/") = {} THEN p
    ELSE SubSeq(p, SetMax(Positions(p, "/")) + 1, Len(p))

\* os.path.join(a, b) for a relative b
PathJoin(a, b) ==
    IF a = <<>> THEN b
    ELSE IF a[Len(a)] = "/" THEN a \o b
    ELSE a \o <<"/">> \o b

\* os.path.splitext: the extension starts at the last dot of the base name,
\* unless only dots precede it (leading dots belong to the root)
SplitextAt(p) ==
    LET start == IF Positions(p, "/") = {} THEN 1
                 ELSE SetMax(Positions(p, "/")) + 1
        dots  == {i \in Positions(p, ".") : i >= start}
    IN  IF dots = {} THEN 0
        ELSE IF \E j \in start..(SetMax(dots) - 1) : p[j] # "."
             THEN SetMax(dots)
             ELSE 0

Splitext(p) ==
    IF SplitextAt(p) = 0 THEN <<p, <<>>>>
    ELSE <<SubSeq(p, 1, SplitextAt(p) - 1), SubSeq(p, SplitextAt(p), Len(p))>>

\* SQLite's LIKE: % matches any run of characters, _ any one character,
\* ASCII letters compare without regard to case
RECURSIVE Like(_, _)
Like(s, pat) ==
    IF pat = <<>> THEN s = <<>>
    ELSE IF Head(pat) = "%"
         THEN Like(s, Tail(pat)) \/ (s # <<>> /\ Like(Tail(s), pat))
    ELSE /\ s # <<>>
         /\ \/ Head(pat) = "_"
            \/ LowerChar(Head(pat)) = LowerChar(Head(s))
         /\ Like(Tail(s), Tail(pat))

\* the parameter f'%{term}%'
Wrap(term) == <<"%">> \o term \o <<"%">>

\* str(n) for a natural number
RECURSIVE Str(_)
Str(n) ==
    LET digits == <<"0","1","2","3","4","5","6","7","8","9">>
    IN  IF n < 10 THEN <<digits[n + 1]>>
        ELSE Str(n \div 10) \o <<digits[(n % 10) + 1]>>

\* the characters of dates and timestamps, in the order of their codes
TextChars == <<" ","0","1","2","3","4","5","6","7","8","9","T">>

CharCode(c) == CHOOSE i \in 1..Len(TextChars) : TextChars[i] = c

\* a < b as SQLite compares two TEXT values: byte by byte, a proper prefix
\* before the longer text
RECURSIVE TextLess(_, _)
TextLess(a, b) ==
    IF b = <<>> THEN FALSE
    ELSE IF a = <<>> THEN TRUE
    ELSE IF Head(a) = Head(b) THEN TextLess(Tail(a), Tail(b))
    ELSE CharCode(Head(a)) < CharCode(Head(b))

\* the date string of a day ('YYYY-MM-DD'; the model's days have one digit)
DateString(day) == Str(day)

\* datetime.isoformat() at some time of a day: the date, "T" and the time
IsoFormat(day) == DateString(day) \o <<"T">>

\* the ascending sequence of a finite set of integers
SortedSeq(S) ==
    [k \in 1..Cardinality(S) |->
        CHOOSE x \in S : Cardinality({y \in S : y < x}) = k - 1]

\* concatenation of a sequence of sequences
RECURSIVE Flatten(_)
Flatten(ss) == IF ss = <<>> THEN <<>> ELSE Head(ss) \o Flatten(Tail(ss))

\* the elements of a sequence
Range(s) == {s[i] : i \in 1..Len(s)}

\* the elements of s at the positions of keep, in order
SelectIdx(s, keep) ==
    LET idx == SortedSeq({i \in 1..Len(s) : i \in keep})
    IN  [k \in 1..Len(idx) |-> s[idx[k]]]

(***************************************************************************)
(* The file tree of the drive.  FilePool lists the files that may exist    *)
(* below the drive root: the names of the directories on the way down and  *)
(* the file's name.  bytes are the file's bytes, which are also the text   *)
(* the format extractor reads from it.                                     *)
(***************************************************************************)
RootDir == <<"/", "d">>

FilePool == <<
    [dir |-> <<>>,
     name |-> <<"1","2","_","c",".","P","d","f">>,
     bytes |-> <<"J","/","D">>],
    [dir |-> << <<"s">>, <<"O","l","d">> >>,
     name |-> <<"1","2","_","c",".","P","d","f">>,
     bytes |-> <<"J","/","D">>],
    [dir |-> << <<"s">> >>,
     name |-> <<"1","x","2",".","T","X","T">>,
     bytes |-> <<"x">>]
>>

Pool == 1..Len(FilePool)

\* a file of the pool is absent, readable ("ok"), or present but not
\* accessible ("locked": os.path.getsize and open raise)
FileStates == {"absent", "ok", "locked"}

Present(dk) == {i \in Pool : dk[i] # "absent"}

\* entry Root of a tree is the drive root itself: there and listable ("ok"),
\* not there ("absent": os.path.exists is false) or there but not listable
\* ("locked": os.scandir raises and os.walk, which is given no onerror,
\* yields nothing)
Root == 0

Disks == {dk \in [Pool \cup {Root} -> FileStates] :
            dk[Root] = "ok" /\ Cardinality(Present(dk)) <= MaxFiles}

\* the path of a directory given by the names on the way down from top
RECURSIVE DirPath(_, _)
DirPath(top, d) ==
    IF d = <<>> THEN top
    ELSE PathJoin(DirPath(top, SubSeq(d, 1, Len(d) - 1)), d[Len(d)])

\* os.path.exists for a directory given as the root of a walk
DirExists(dk, p) == p = RootDir /\ dk[Root] # "absent"

\* whether os.scandir lists the directory given as the root of a walk
CanList(dk, p) == p = RootDir /\ dk[Root] = "ok"

\* the file of the pool that lives at a path, 0 when there is none
FileAt(dk, path) ==
    LET at == {i \in Present(dk) :
                 PathJoin(DirPath(RootDir, FilePool[i].dir), FilePool[i].name) = path}
    IN  IF at = {} THEN 0 ELSE SetMin(at)

\* whether os.path.getsize(path) raises
StatFails(dk, path) ==
    \/ dk[Root] # "ok"
    \/ FileAt(dk, path) = 0
    \/ dk[FileAt(dk, path)] = "locked"

\* os.path.getsize(path)
GetSize(dk, path) == Len(FilePool[FileAt(dk, path)].bytes)

(***************************************************************************)
(* What the user may type or tick on the "Setup & Indexing" tab.           *)
(***************************************************************************)
PDF == <<"p","d","f">>
TXT == <<"t","x","t">>
CSV == <<"c","s","v">>
DOC == <<"d","o","c">>
DOCX == <<"d","o","c","x">>
XLS == <<"x","l","s">>
XLSX == <<"x","l","s","x">>

\* the keys of self.file_types and of self.retrieval_filters
TypeKeys == {PDF, XLSX, XLS, DOCX, DOC, CSV, TXT}

\* what the exclude entry may hold
ExcludeInputs == {<<>>, <<"x",","," ","O","L","D",",">>, <<"S">>}

\* the ticked file types with the "Index document contents" option
TypeInputs ==
    {[types |-> {}, content |-> FALSE],
     [types |-> {PDF}, content |-> FALSE],
     [types |-> {PDF, TXT}, content |-> TRUE]}

(***************************************************************************)
(* State.                                                                  *)
(***************************************************************************)
VARIABLES
    disk,              \* the drive root and the files below it
    clock,             \* the day datetime.now() reads
    dialog,            \* the message box shown last, "none" before the first
    drive_location,    \* tk.StringVar
    exclude_folders,   \* tk.StringVar
    file_types,        \* the ticked keys of self.file_types
    index_content,     \* tk.BooleanVar
    files,             \* table "files", in rowid order
    index_btn,         \* state of the "Full Index" button
    update_index_btn,  \* state of the "Update Index" button
    index_status,      \* what the index status label shows
    index_progress,    \* value of the index progress bar
    index_threads,     \* the index_directory threads started and not ended
    last_run,          \* the last index_directory run: its arguments
    tree_changed,      \* the changes of the tree since the last index_directory
                       \* run: how many, and whether a file came or went
    csv_file_path,     \* tk.StringVar
    search_account,    \* tk.StringVar
    search_firstname,  \* tk.StringVar
    search_lastname,   \* tk.StringVar
    date_from,         \* tk.StringVar
    date_to,           \* tk.StringVar
    retrieval_filters, \* the ticked keys of self.retrieval_filters
    bulk_rename_prefix, \* tk.BooleanVar
    export_to_excel,   \* tk.BooleanVar
    retrieve_btn,      \* state of the "Retrieve Documents" button
    retrieve_status,   \* what the retrieve status label shows
    retrieve_progress, \* value of the retrieve progress bar
    retrieve_threads,  \* the retrieve_documents threads started and not ended
    output,            \* the output folder the last retrieve_documents made
    last_retrieval     \* the last retrieve_documents run: its search_terms

indexVars == <<drive_location, exclude_folders, file_types, index_content, files,
               index_btn, update_index_btn, index_status, index_progress,
               index_threads, last_run, tree_changed>>

retrieveSettings == <<csv_file_path, search_account, search_firstname,
                      search_lastname, date_from, date_to, retrieval_filters,
                      bulk_rename_prefix, export_to_excel>>

retrieveVars == <<retrieveSettings, retrieve_btn, retrieve_status,
                  retrieve_progress, retrieve_threads, output, last_retrieval>>

vars == <<disk, clock, dialog, indexVars, retrieveVars>>


(***************************************************************************)
(* The indexing engine.                                                    *)
(***************************************************************************)
\* get_selected_extensions
get_selected_extensions(types) == {<<".">> \o k : k \in types}

\* the exclude list of index_directory
ExcludeFolders(raw) ==
    LET parts == Split(raw, ",")
    IN  {Lower(Strip(parts[i])) : i \in {j \in 1..Len(parts) : Strip(parts[j]) # <<>>}}

\* the directories below d (names on the way down from the root of the walk)
\* that os.walk lists in d, in listing order
SubDirs(dk, d) ==
    LET under(i) == /\ Len(FilePool[i].dir) > Len(d)
                    /\ SubSeq(FilePool[i].dir, 1, Len(d)) = d
        names    == {FilePool[i].dir[Len(d) + 1] : i \in {j \in Present(dk) : under(j)}}
        first(n) == SetMin({i \in Present(dk) : under(i) /\ FilePool[i].dir[Len(d) + 1] = n})
        order    == SortedSeq({first(n) : n \in names})
    IN  [k \in 1..Len(order) |-> Append(d, FilePool[order[k]].dir[Len(d) + 1])]

\* mutant of PruneDirs: the directory name is compared as it is spelled
PruneDirs_CaseSensitive(dirs, exclude) ==
    SelectIdx(dirs, {k \in 1..Len(dirs) : dirs[k][Len(dirs[k])] \notin exclude})

\* dirs[:] = [d for d in dirs if d.lower() not in exclude_folders]
PruneDirs(dirs, exclude) ==
    SelectIdx(dirs, {k \in 1..Len(dirs) : Lower(dirs[k][Len(dirs[k])]) \notin exclude})

\* the directories os.walk yields from d on, top down, after pruning
RECURSIVE WalkFrom(_, _, _)
WalkFrom(dk, d, exclude) ==
    LET kept == PruneDirs(SubDirs(dk, d), exclude)
    IN  <<d>> \o Flatten([k \in 1..Len(kept) |-> WalkFrom(dk, kept[k], exclude)])

\* os.walk(directory): nothing when the directory cannot be listed
Walk(dk, directory, exclude) ==
    IF CanList(dk, directory) THEN WalkFrom(dk, <<>>, exclude) ELSE <<>>

\* the file names os.walk lists in directory d
FilesOf(dk, d) ==
    LET here == SortedSeq({i \in Present(dk) : FilePool[i].dir = d})
    IN  [k \in 1..Len(here) |-> FilePool[here[k]].name]

\* mutant of ScanFiles: a path already indexed is queued again
ScanFiles_NoSkip(root, names, extensions, incremental, existing_files) ==
    LET keep == {k \in 1..Len(names) : Lower(Splitext(names[k])[2]) \in extensions}
        kept == SelectIdx(names, keep)
    IN  [k \in 1..Len(kept) |-> PathJoin(root, kept[k])]

\* the inner loop of the scan over one directory: the paths to index
ScanFiles(root, names, extensions, incremental, existing_files) ==
    LET keep == {k \in 1..Len(names) :
                   /\ Lower(Splitext(names[k])[2]) \in extensions
                   /\ incremental => PathJoin(root, names[k]) \notin existing_files}
        kept == SelectIdx(names, keep)
    IN  [k \in 1..Len(kept) |-> PathJoin(root, kept[k])]

\* all_files of index_directory
ScanDirectory(dk, directory, exclude, extensions, incremental, existing_files) ==
    LET walk == Walk(dk, directory, exclude)
    IN  Flatten([k \in 1..Len(walk) |->
                  ScanFiles(DirPath(directory, walk[k]), FilesOf(dk, walk[k]),
                            extensions, incremental, existing_files)])

\* extract_text_from_file, for a file that can be read
extract_text_from_file(dk, filepath) ==
    LET ext == Lower(Splitext(filepath)[2])
    IN  IF ext \in {<<".">> \o k : k \in {TXT, CSV, PDF, DOCX, XLSX, XLS}}
        THEN FilePool[FileAt(dk, filepath)].bytes
        ELSE <<>>

\* mutant of NewRecord: the extension is stored as the file name spells it
NewRecord_RawExtension(dk, filepath, with_content, now) ==
    [filename |-> Basename(filepath),
     filepath |-> filepath,
     file_extension |-> Splitext(Basename(filepath))[2],
     file_size |-> GetSize(dk, filepath),
     content_text |-> IF with_content THEN extract_text_from_file(dk, filepath) ELSE <<>>,
     indexed_at |-> IsoFormat(now)]

\* the row index_directory inserts for filepath
NewRecord(dk, filepath, with_content, now) ==
    [filename |-> Basename(filepath),
     filepath |-> filepath,
     file_extension |-> Lower(Splitext(Basename(filepath))[2]),
     file_size |-> GetSize(dk, filepath),
     content_text |-> IF with_content THEN extract_text_from_file(dk, filepath) ELSE <<>>,
     indexed_at |-> IsoFormat(now)]

\* mutant of IndexChunk: the chunk ends at the first file whose indexing
\* raises
RECURSIVE IndexChunk_StopAtFailure(_, _, _, _)
IndexChunk_StopAtFailure(dk, chunk, with_content, now) ==
    IF chunk = <<>> \/ StatFails(dk, Head(chunk)) THEN <<>>
    ELSE <<NewRecord(dk, Head(chunk), with_content, now)>>
         \o IndexChunk_StopAtFailure(dk, Tail(chunk), with_content, now)

\* the rows one chunk inserts: a file whose indexing raises is skipped
RECURSIVE IndexChunk(_, _, _, _)
IndexChunk(dk, chunk, with_content, now) ==
    IF chunk = <<>> THEN <<>>
    ELSE (IF StatFails(dk, Head(chunk)) THEN <<>>
          ELSE <<NewRecord(dk, Head(chunk), with_content, now)>>)
         \o IndexChunk(dk, Tail(chunk), with_content, now)

chunk_size == 50

\* for i in range(0, total_files, chunk_size): the rows inserted from i on
RECURSIVE IndexChunks(_, _, _, _, _)
IndexChunks(dk, all_files, i, with_content, now) ==
    IF i >= Len(all_files) THEN <<>>
    ELSE LET last == IF i + chunk_size < Len(all_files) THEN i + chunk_size
                     ELSE Len(all_files)
         IN  IndexChunk(dk, SubSeq(all_files, i + 1, last), with_content, now)
             \o IndexChunks(dk, all_files, i + chunk_size, with_content, now)

\* SELECT filepath FROM files
ExistingFiles(table) == {table[k].filepath : k \in 1..Len(table)}

\* the tree as the last run left it
NoChange == [n |-> 0, added_or_removed |-> FALSE]

NoRun ==
    [n |-> 0, mode |-> "none", repeat |-> FALSE, same_files |-> FALSE,
     directory |-> <<>>,
     extensions |-> {}, exclude |-> {}, kept |-> 0, visited |-> {},
     before |-> <<>>, listable |-> FALSE]

\* mutant of CanStartIndexing: the drive location is not looked up
CanStartIndexing_NoLookup(dk, drive_entry, types) ==
    /\ Strip(drive_entry) # <<>>
    /\ get_selected_extensions(types) # {}

\* the checks of start_indexing and of start_incremental_indexing
CanStartIndexing(dk, drive_entry, types) ==
    /\ Strip(drive_entry) # <<>>
    /\ DirExists(dk, Strip(drive_entry))
    /\ get_selected_extensions(types) # {}

\* the message box of the check that fails first
IndexingRefusal(dk, drive_entry, types) ==
    IF Strip(drive_entry) = <<>> THEN "Please enter a drive location"
    ELSE IF ~DirExists(dk, Strip(drive_entry)) THEN "Drive location does not exist"
    ELSE "Please select at least one file type"

\* the arguments the start handlers give to the thread
ThreadArgs(drive_entry, types, with_content, incremental) ==
    [directory |-> Strip(drive_entry),
     extensions |-> get_selected_extensions(types),
     index_content |-> with_content,
     incremental |-> incremental]

\* start_indexing: the "Full Index" button
start_indexing ==
    /\ index_btn = "normal"
    /\ Len(index_threads) < MaxThreads
    /\ IF CanStartIndexing(disk, drive_location, file_types)
       THEN /\ index_btn' = "disabled"
            /\ index_status' = <<"in_progress">>
            /\ index_threads' = Append(index_threads,
                    ThreadArgs(drive_location, file_types, index_content, FALSE))
            /\ UNCHANGED dialog
       ELSE /\ dialog' = IndexingRefusal(disk, drive_location, file_types)
            /\ UNCHANGED <<index_btn, index_status, index_threads>>
    /\ UNCHANGED <<disk, clock, drive_location, exclude_folders, file_types,
                   index_content, files, update_index_btn, index_progress,
                   last_run, tree_changed, retrieveVars>>

\* start_incremental_indexing: the "Update Index" button
start_incremental_indexing ==
    /\ update_index_btn = "normal"
    /\ Len(index_threads) < MaxThreads
    /\ IF CanStartIndexing(disk, drive_location, file_types)
       THEN /\ index_btn' = "disabled"
            /\ update_index_btn' = "disabled"
            /\ index_status' = <<"incremental_in_progress">>
            /\ index_threads' = Append(index_threads,
                    ThreadArgs(drive_location, file_types, index_content, TRUE))
            /\ UNCHANGED dialog
       ELSE /\ dialog' = IndexingRefusal(disk, drive_location, file_types)
            /\ UNCHANGED <<index_btn, update_index_btn, index_status,
                           index_threads>>
    /\ UNCHANGED <<disk, clock, drive_location, exclude_folders, file_types,
                   index_content, files, index_progress, last_run, tree_changed,
                   retrieveVars>>

\* mutant of KeptRows: the table is cleared in incremental mode too
KeptRows_Cleared(table, incremental) == <<>>

\* the rows the table keeps when index_directory starts
KeptRows(table, incremental) == IF incremental THEN table ELSE <<>>

\* mutant of Baseline: the paths already indexed are not fetched
Baseline_Empty(table, incremental) == {}

\* existing_files of index_directory
Baseline(table, incremental) == IF incremental THEN ExistingFiles(table) ELSE {}

\* mutant of IndexStatus: the status of the last chunk stays
IndexStatus_LastChunk(total_files, indexed_count) ==
    IF total_files = 0 THEN <<"no_files">>
    ELSE <<"indexed", indexed_count, total_files>>

\* mutant of IndexStatus: a run that found no file ends as a completed one
IndexStatus_NoEarlyReturn(total_files, indexed_count) ==
    <<"complete", indexed_count>>

\* the status label when the try block of index_directory ends without an
\* exception: "No files found" or "Complete! Indexed n files"
IndexStatus(total_files, indexed_count) ==
    IF total_files = 0 THEN <<"no_files">>
    ELSE <<"complete", indexed_count>>

\* index_directory(directory, extensions, index_content, incremental), from
\* its first line to the end of its finally block, with the exclude entry
\* it reads; db_ok is whether the database takes its statements (when the
\* first one raises, the except block reports the error)
IndexBody(a, raw_exclude, db_ok) ==
    LET exclude  == ExcludeFolders(raw_exclude)
        all      == ScanDirectory(disk, a.directory, exclude, a.extensions,
                                  a.incremental, Baseline(files, a.incremental))
        inserted == IndexChunks(disk, all, 0, a.index_content, clock)
        run(kept, visited) ==
              [n |-> IF last_run.n < MaxRuns THEN last_run.n + 1 ELSE MaxRuns,
               mode |-> IF a.incremental THEN "incremental" ELSE "full",
               repeat |-> /\ a.incremental
                          /\ last_run.mode = "incremental"
                          /\ last_run.directory = a.directory
                          /\ last_run.extensions = a.extensions
                          /\ last_run.exclude = exclude
                          /\ tree_changed.n = 0,
               same_files |-> /\ a.incremental
                              /\ last_run.mode = "incremental"
                              /\ last_run.directory = a.directory
                              /\ last_run.extensions = a.extensions
                              /\ last_run.exclude = exclude
                              /\ ~tree_changed.added_or_removed,
               directory |-> a.directory,
               extensions |-> a.extensions,
               exclude |-> exclude,
               kept |-> kept,
               visited |-> visited,
               before |-> files,
               listable |-> CanList(disk, a.directory)]
    IN  /\ IF db_ok
           THEN /\ files' = KeptRows(files, a.incremental) \o inserted
                /\ index_status' = IndexStatus(Len(all), Len(inserted))
                /\ last_run' = run(Len(KeptRows(files, a.incremental)),
                                   Range(Walk(disk, a.directory, exclude)))
                /\ UNCHANGED dialog
           ELSE /\ files' = files
                /\ index_status' = <<"error">>
                /\ last_run' = run(Len(files), {})
                /\ dialog' = "Indexing Error"
        /\ index_btn' = "normal"
        /\ update_index_btn' = "normal"
        /\ index_progress' = 0
        /\ tree_changed' = NoChange
        /\ UNCHANGED <<disk, clock, retrieveVars>>

\* thread t runs index_directory and ends
index_directory(t) ==
    /\ t \in 1..Len(index_threads)
    /\ \E db_ok \in BOOLEAN : IndexBody(index_threads[t], exclude_folders, db_ok)
    /\ index_threads' = SelectIdx(index_threads, (1..Len(index_threads)) \ {t})
    /\ UNCHANGED <<drive_location, exclude_folders, file_types, index_content>>

\* the user fills in the exclude entry and the file types and presses
\* "Full Index" (incremental = FALSE) or "Update Index" (TRUE) while no run
\* is active; the run it starts runs to its end on a database that works
IndexRun(incremental) ==
    \E e \in ExcludeInputs, ty \in TypeInputs :
        /\ IF incremental THEN update_index_btn = "normal" ELSE index_btn = "normal"
        /\ index_threads = <<>>
        /\ last_run.n < MaxRuns
        /\ CanStartIndexing(disk, drive_location, ty.types)
        /\ exclude_folders' = e
        /\ file_types' = ty.types
        /\ index_content' = ty.content
        /\ IndexBody(ThreadArgs(drive_location, ty.types, ty.content, incremental),
                     e, TRUE)
        /\ UNCHANGED <<drive_location, index_threads>>

FullIndex == IndexRun(FALSE)

IncrementalIndex == IndexRun(TRUE)

(***************************************************************************)
(* The retrieval engine: retrieve_documents.                               *)
(***************************************************************************)
\* the CSV files the user may browse to: the rows csv.reader yields, the
\* header row first (a blank line yields an empty row)
CsvListPath == <<"l",".","c","s","v">>
CsvGonePath == <<"g",".","c","s","v">>
\* a list whose data row has nothing but a blank in its first cell
CsvBlankPath == <<"b",".","c","s","v">>

CsvExists(path) == path \in {CsvListPath, CsvBlankPath}

CsvRows(path) ==
    IF path = CsvBlankPath
    THEN << <<<<"i","d">>, <<"n">>>>,
            <<<<" ">>, <<"x">>>> >>
    ELSE << <<<<"i","d">>>>,
            <<<<" ","1","2">>, <<"x">>>>,
            <<>>,
            <<<<"9">>>> >>

\* search_terms of retrieve_documents
SearchTerms(csv_entry, account_entry, first_entry, last_entry) ==
    LET csv_file  == Strip(csv_entry)
        rows      == IF csv_file # <<>> /\ CsvExists(csv_file)
                     THEN Tail(CsvRows(csv_file)) ELSE <<>>
        data      == SelectIdx(rows, {k \in 1..Len(rows) : rows[k] # <<>>})
        from_csv  == [k \in 1..Len(data) |-> <<"account", Strip(data[k][1])>>]
        account   == Strip(account_entry)
        firstname == Strip(first_entry)
        lastname  == Strip(last_entry)
    IN  from_csv
        \o (IF account # <<>> THEN << <<"account", account>> >> ELSE <<>>)
        \o (IF firstname # <<>> \/ lastname # <<>>
            THEN << <<"name", Strip(firstname \o <<" ">> \o lastname)>> >>
            ELSE <<>>)

\* the day of the sentinel dates '1900-01-01' and '2100-12-31'
FarPast == 0
FarFuture == 9

\* indexed_at >= ? and indexed_at <= ? compare the stored ISO timestamp with
\* the text of the bound
TimestampGE(indexed_at, bound) == ~TextLess(indexed_at, bound)
TimestampLE(indexed_at, bound) == ~TextLess(bound, indexed_at)

\* allowed_extensions of retrieve_documents
AllowedExtensions(filters) == {<<".">> \o k : k \in filters}

\* the WHERE clause of the query for one term
Matches(r, search_type, term, d_from, d_to) ==
    /\ IF search_type = "account"
       THEN Like(r.filename, Wrap(term)) \/ Like(r.content_text, Wrap(term))
       ELSE Like(r.content_text, Wrap(term))
    /\ (d_from # <<>> \/ d_to # <<>>) =>
          /\ TimestampGE(r.indexed_at,
                         IF d_from # <<>> THEN d_from ELSE DateString(FarPast))
          /\ TimestampLE(r.indexed_at,
                         IF d_to # <<>> THEN d_to ELSE DateString(FarFuture))

\* filtered_results: the rows of the query whose extension is allowed
FilteredResults(table, search_type, term, d_from, d_to, allowed_extensions) ==
    SelectIdx(table, {k \in 1..Len(table) :
                        /\ Matches(table[k], search_type, term, d_from, d_to)
                        /\ table[k].file_extension \in allowed_extensions})

\* hashlib.md5(f.read()).hexdigest(), None (<<>>) when the file cannot be read
Md5(bytes) == <<"md5", bytes>>

FileHash(dk, path) ==
    IF StatFails(dk, path) THEN <<>> ELSE Md5(FilePool[FileAt(dk, path)].bytes)

\* the destination file name before conflicts are handled
PrefixedName(term, filename, prefix) ==
    IF prefix
    THEN term \o <<"_">> \o Splitext(filename)[1] \o Splitext(filename)[2]
    ELSE filename

\* the name with the first free counter: base_1.ext, base_2.ext, ...
RECURSIVE NextFree(_, _, _)
NextFree(names, filename, counter) ==
    LET candidate == Splitext(filename)[1] \o <<"_">> \o Str(counter)
                     \o Splitext(filename)[2]
    IN  IF candidate \in names THEN NextFree(names, filename, counter + 1)
        ELSE candidate

\* mutant of ResolveDest: the computed name is used as it is
ResolveDest_Overwrite(names, filename) == Basename(filename)

\* os.path.basename(dest) after the name conflicts are handled; names are
\* the files of the output directory
ResolveDest(names, filename) ==
    IF filename \in names THEN NextFree(names, filename, 1) ELSE Basename(filename)

\* whether shutil.copy2(source, dest) succeeds: the source must be readable
\* and the directory of dest must exist (the output directory has no
\* subdirectories)
CopySucceeds(dk, source, filename) ==
    ~StatFails(dk, source) /\ Positions(filename, "/") = {}

\* a line of manifest_data
Line(kind, a, b) == [kind |-> kind, a |-> a, b |-> b]

\* the accumulators of retrieve_documents when the loop over the terms
\* starts; rows and matched are a history of the loop: the rows processed
\* and the length of filtered_results for each term
StartState(n_terms) ==
    [manifest_data |-> <<Line("title", <<>>, <<>>), Line("generated", <<>>, <<>>),
                         Line("total_terms", n_terms, <<>>), Line("rule", <<>>, <<>>),
                         Line("blank", <<>>, <<>>)>>,
     found_files_data |-> <<>>,
     missing_files |-> <<>>,
     duplicates_detected |-> <<>>,
     total_found |-> 0,
     processed |-> 0,
     file_hashes |-> <<>>,
     bundle |-> {},
     rows |-> <<>>,
     matched |-> <<>>]

\* mutant of HashKnown: no hash is ever found in file_hashes
HashKnown_Never(file_hashes, h) == FALSE

\* file_hashes is kept as a sequence of <<hash, filename>> pairs
HashKnown(file_hashes, h) == \E k \in 1..Len(file_hashes) : file_hashes[k][1] = h

HashOwner(file_hashes, h) ==
    file_hashes[CHOOSE k \in 1..Len(file_hashes) : file_hashes[k][1] = h][2]

\* mutant of IsMissing: no term counts as missing
IsMissing_Never(filtered_results) == FALSE

\* "if not filtered_results"
IsMissing(filtered_results) == filtered_results = <<>>

\* mutant of ErrorLines: the line of the file is appended before the copy
ErrorLines_AfterFound(filename, is_duplicate) ==
    <<Line("found", filename, is_duplicate), Line("error", <<>>, <<>>)>>

\* what the except clause of the row appends to manifest_data
ErrorLines(filename, is_duplicate) == <<Line("error", <<>>, <<>>)>>

\* the body of "for file in filtered_results" for one row
ProcessRow(st, dk, search_type, term, file, prefix) ==
    LET file_hash    == FileHash(dk, file.filepath)
        is_duplicate == file_hash # <<>> /\ HashKnown(st.file_hashes, file_hash)
        hashes       == IF file_hash # <<>> /\ ~is_duplicate
                        THEN Append(st.file_hashes, <<file_hash, file.filename>>)
                        ELSE st.file_hashes
        duplicates   == IF is_duplicate
                        THEN Append(st.duplicates_detected,
                                    [original |-> HashOwner(st.file_hashes, file_hash),
                                     duplicate |-> file.filename,
                                     search_term |-> term])
                        ELSE st.duplicates_detected
        filename     == PrefixedName(term, file.filename, prefix)
        names        == {e.name : e \in st.bundle}
        dest         == ResolveDest(names, filename)
        copied       == CopySucceeds(dk, file.filepath, filename)
        row          == [term_no |-> st.processed + 1,
                         search_term |-> term,
                         filepath |-> file.filepath,
                         filename |-> file.filename,
                         readable |-> ~StatFails(dk, file.filepath),
                         is_duplicate |-> is_duplicate,
                         computed |-> filename,
                         copied |-> copied,
                         dest |-> dest]
    IN  IF copied
        THEN [st EXCEPT
                !.rows = Append(@, row),
                !.file_hashes = hashes,
                !.duplicates_detected = duplicates,
                !.bundle = {e \in @ : e.name # dest}
                          \cup {[name |-> dest, source |-> file.filepath]},
                !.manifest_data = @ \o <<Line("found", filename, is_duplicate),
                                         Line("source", file.filepath, <<>>),
                                         Line("size", file.file_size, <<>>)>>,
                !.found_files_data = Append(@,
                    [search_term |-> term,
                     search_type |-> search_type,
                     filename |-> file.filename,
                     filepath |-> file.filepath,
                     file_extension |-> file.file_extension,
                     file_size |-> file.file_size,
                     output_filename |-> dest,
                     is_duplicate |-> is_duplicate])]
        ELSE [st EXCEPT
                !.rows = Append(@, row),
                !.file_hashes = hashes,
                !.duplicates_detected = duplicates,
                !.manifest_data = @ \o ErrorLines(filename, is_duplicate)]

\* mutant of ProcessRows: the rows of a term end at the first failed copy
RECURSIVE ProcessRows_StopAtFailure(_, _, _, _, _, _)
ProcessRows_StopAtFailure(st, dk, search_type, term, rows, prefix) ==
    IF rows = <<>> THEN st
    ELSE LET next == ProcessRow(st, dk, search_type, term, Head(rows), prefix)
         IN  IF ~next.rows[Len(next.rows)].copied THEN next
             ELSE ProcessRows_StopAtFailure(next, dk, search_type, term,
                                            Tail(rows), prefix)

\* for file in filtered_results
RECURSIVE ProcessRows(_, _, _, _, _, _)
ProcessRows(st, dk, search_type, term, rows, prefix) ==
    IF rows = <<>> THEN st
    ELSE ProcessRows(ProcessRow(st, dk, search_type, term, Head(rows), prefix),
                     dk, search_type, term, Tail(rows), prefix)

\* the body of "for search_type, term in search_terms" for one term
ProcessTerm(st, dk, table, search_type, term, f) ==
    LET filtered_results ==
            FilteredResults(table, search_type, term, f.date_from, f.date_to,
                            f.allowed_extensions)
        opened == [st EXCEPT !.manifest_data =
                                Append(@, Line("term", term, search_type)),
                             !.matched = Append(@, Len(filtered_results))]
        done   == IF IsMissing(filtered_results)
                  THEN [opened EXCEPT
                          !.manifest_data = Append(@, Line("not_found", <<>>, <<>>)),
                          !.missing_files = Append(@, [search_term |-> term,
                                                       search_type |-> search_type])]
                  ELSE ProcessRows([opened EXCEPT !.total_found =
                                                     @ + Len(filtered_results)],
                                   dk, search_type, term, filtered_results, f.prefix)
    IN  [done EXCEPT !.manifest_data = Append(@, Line("blank", <<>>, <<>>)),
                     !.processed = @ + 1]

RECURSIVE ProcessTerms(_, _, _, _, _)
ProcessTerms(st, dk, table, terms, f) ==
    IF terms = <<>> THEN st
    ELSE ProcessTerms(ProcessTerm(st, dk, table, Head(terms)[1], Head(terms)[2], f),
                      dk, table, Tail(terms), f)

\* the summary lines retrieve_documents appends after the loop
Summary(st, n_terms) ==
    <<Line("summary", st.total_found, n_terms)>>
    \o (IF st.duplicates_detected # <<>>
        THEN <<Line("duplicates", Len(st.duplicates_detected), <<>>)>>
        ELSE <<>>)

\* the output folder at the end of retrieve_documents: the copied files
\* and the reports written (openpyxl is installed)
OutputFolder(st, n_terms, xlsx) ==
    [bundle |-> st.bundle,
     written |-> {"MANIFEST.txt"}
                 \cup (IF xlsx THEN {"MANIFEST.xlsx"} ELSE {})
                 \cup (IF st.missing_files # <<>> THEN {"missing_media.csv"} ELSE {})
                 \cup (IF st.found_files_data # <<>> THEN {"found_files.csv"} ELSE {})
                 \cup (IF st.duplicates_detected # <<>>
                       THEN {"duplicates_detected.csv"} ELSE {}),
     manifest_txt |-> st.manifest_data \o Summary(st, n_terms),
     missing_media |-> st.missing_files,
     found_files |-> st.found_files_data,
     duplicates_detected |-> st.duplicates_detected,
     total_found |-> st.total_found]

\* no output folder
NoOutput ==
    [bundle |-> {}, written |-> {}, manifest_txt |-> <<>>, missing_media |-> <<>>,
     found_files |-> <<>>, duplicates_detected |-> <<>>, total_found |-> 0]

\* no retrieve_documents run yet
NoRetrieval ==
    [mode |-> "none", search_terms |-> <<>>, rows |-> <<>>, matched |-> <<>>,
     processed |-> 0]

\* the check of start_retrieval
CanStartRetrieval(csv_entry, account_entry, first_entry, last_entry) ==
    \/ Strip(csv_entry) # <<>>
    \/ Strip(account_entry) # <<>>
    \/ Strip(first_entry) # <<>>
    \/ Strip(last_entry) # <<>>

\* mutant of start_retrieval: the button stays enabled
start_retrieval_KeepsButton ==
    /\ retrieve_btn = "normal"
    /\ retrieve_threads < MaxThreads
    /\ IF CanStartRetrieval(csv_file_path, search_account, search_firstname,
                            search_lastname)
       THEN /\ retrieve_status' = <<"searching">>
            /\ retrieve_threads' = retrieve_threads + 1
            /\ UNCHANGED <<dialog, retrieve_btn>>
       ELSE /\ dialog' = "Please provide search criteria"
            /\ UNCHANGED <<retrieve_btn, retrieve_status, retrieve_threads>>
    /\ UNCHANGED <<disk, clock, indexVars, retrieveSettings,
                   retrieve_progress, output, last_retrieval>>

\* start_retrieval: the "Retrieve Documents" button
start_retrieval ==
    /\ retrieve_btn = "normal"
    /\ retrieve_threads < MaxThreads
    /\ IF CanStartRetrieval(csv_file_path, search_account, search_firstname,
                            search_lastname)
       THEN /\ retrieve_btn' = "disabled"
            /\ retrieve_status' = <<"searching">>
            /\ retrieve_threads' = retrieve_threads + 1
            /\ UNCHANGED dialog
       ELSE /\ dialog' = "Please provide search criteria"
            /\ UNCHANGED <<retrieve_btn, retrieve_status, retrieve_threads>>
    /\ UNCHANGED <<disk, clock, indexVars, retrieveSettings, retrieve_progress,
                   output, last_retrieval>>

\* mutant of TableAfterQueries: the rows a query selects leave the table
TableAfterQueries_Consumed(table, search_terms, f) ==
    SelectIdx(table,
              {k \in 1..Len(table) :
                  \A t \in 1..Len(search_terms) :
                      ~Matches(table[k], search_terms[t][1], search_terms[t][2],
                               f.date_from, f.date_to)})

\* table "files" after the queries of retrieve_documents: each is a SELECT,
\* no other statement is executed and nothing is committed
TableAfterQueries(table, search_terms, f) == table

\* retrieve_documents, from its first line to the end of its finally block,
\* with the entries s it reads; every run makes its own output folder
\* (retrieval_<timestamp>), and os.makedirs raises when the folder cannot
\* be made
RetrieveBody(s, creatable) ==
    LET search_terms == SearchTerms(s.csv_file_path, s.search_account,
                                    s.search_firstname, s.search_lastname)
        f  == [date_from |-> Strip(s.date_from),
               date_to |-> Strip(s.date_to),
               allowed_extensions |-> AllowedExtensions(s.retrieval_filters),
               prefix |-> s.bulk_rename_prefix]
        st == ProcessTerms(StartState(Len(search_terms)), disk, files,
                           search_terms, f)
    IN  /\ IF search_terms = <<>>
           THEN /\ retrieve_status' = <<"no_terms">>
                /\ output' = NoOutput
                /\ last_retrieval' = [NoRetrieval EXCEPT !.mode = "no_terms"]
                /\ UNCHANGED dialog
           ELSE IF ~creatable
           THEN /\ retrieve_status' = <<"error">>
                /\ output' = NoOutput
                /\ last_retrieval' = [NoRetrieval EXCEPT !.mode = "error"]
                /\ dialog' = "Retrieval Error"
           ELSE /\ retrieve_status' = <<"complete", st.total_found>>
                /\ dialog' = "Success"
                /\ output' = OutputFolder(st, Len(search_terms), s.export_to_excel)
                /\ last_retrieval' = [mode |-> "complete",
                                      search_terms |-> search_terms,
                                      rows |-> st.rows,
                                      matched |-> st.matched,
                                      processed |-> st.processed]
        /\ retrieve_btn' = "normal"
        /\ retrieve_progress' = 0
        /\ files' = IF search_terms = <<>> \/ ~creatable THEN files
                    ELSE TableAfterQueries(files, search_terms, f)
        /\ UNCHANGED <<disk, clock, drive_location, exclude_folders, file_types,
                       index_content, index_btn, update_index_btn, index_status,
                       index_progress, index_threads, last_run, tree_changed>>

\* the entries of the retrieval tab
RetrieveSettings ==
    [csv_file_path |-> csv_file_path, search_account |-> search_account,
     search_firstname |-> search_firstname, search_lastname |-> search_lastname,
     date_from |-> date_from, date_to |-> date_to,
     retrieval_filters |-> retrieval_filters,
     bulk_rename_prefix |-> bulk_rename_prefix,
     export_to_excel |-> export_to_excel]

\* a thread runs retrieve_documents and ends
retrieve_documents ==
    /\ retrieve_threads > 0
    /\ \E creatable \in BOOLEAN : RetrieveBody(RetrieveSettings, creatable)
    /\ retrieve_threads' = retrieve_threads - 1
    /\ UNCHANGED retrieveSettings

\* what the user searches for
TermInputs ==
    LET T(c, a, fn, ln) == [csv_file_path |-> c, search_account |-> a,
                            search_firstname |-> fn, search_lastname |-> ln]
    IN  { T(<<>>, <<"1","2">>, <<>>, <<>>),
          T(<<>>, <<"1","_","2">>, <<>>, <<>>),
          T(<<>>, <<"j","/","d">>, <<>>, <<>>),
          T(CsvListPath, <<"1","2"," ">>, <<>>, <<>>),
          T(CsvGonePath, <<>>, <<>>, <<>>),
          T(CsvBlankPath, <<"1","2">>, <<>>, <<>>),
          T(<<>>, <<>>, <<"j","/">>, <<"d">>),
          T(<<>>, <<"1","2">>, <<"J","/","D"," ">>, <<>>),
          T(<<>>, <<"9">>, <<>>, <<" ">>) }

\* the options of the retrieval tab
OptionInputs ==
    LET O(fl, pf, xl) == [retrieval_filters |-> fl, bulk_rename_prefix |-> pf,
                          export_to_excel |-> xl]
    IN  { O(TypeKeys, TRUE, TRUE), O(TypeKeys, FALSE, FALSE), O({PDF}, FALSE, TRUE) }

\* the date bounds the user may type: none, the day the catalog was
\* indexed (day 1) as either bound, a later day as both
DateInputs ==
    LET B(df, dt) == [date_from |-> df, date_to |-> dt]
    IN  { B(<<>>, <<>>), B(<<"1">>, <<>>), B(<<>>, <<"1"," ">>),
          B(<<"2">>, <<"2">>) }

\* the user fills in the retrieval tab and presses "Retrieve Documents"
\* for the first time; the run it starts runs to its end
RetrievalRun ==
    \E t \in TermInputs, o \in OptionInputs, d \in DateInputs :
        /\ last_retrieval.mode = "none"
        /\ retrieve_btn = "normal"
        /\ retrieve_threads = 0
        /\ CanStartRetrieval(t.csv_file_path, t.search_account,
                             t.search_firstname, t.search_lastname)
        /\ csv_file_path' = t.csv_file_path
        /\ search_account' = t.search_account
        /\ search_firstname' = t.search_firstname
        /\ search_lastname' = t.search_lastname
        /\ date_from' = d.date_from
        /\ date_to' = d.date_to
        /\ retrieval_filters' = o.retrieval_filters
        /\ bulk_rename_prefix' = o.bulk_rename_prefix
        /\ export_to_excel' = o.export_to_excel
        /\ \E creatable \in BOOLEAN : RetrieveBody(
                        [csv_file_path |-> t.csv_file_path,
                         search_account |-> t.search_account,
                         search_firstname |-> t.search_firstname,
                         search_lastname |-> t.search_lastname,
                         date_from |-> d.date_from, date_to |-> d.date_to,
                         retrieval_filters |-> o.retrieval_filters,
                         bulk_rename_prefix |-> o.bulk_rename_prefix,
                         export_to_excel |-> o.export_to_excel], creatable)
        /\ UNCHANGED retrieve_threads

(***************************************************************************)
(* The user and the drive.                                                 *)
(***************************************************************************)
\* after an indexing run a file below the drive root appears, disappears
\* or changes accessibility
ChangeTree ==
    \E i \in Pool, st \in FileStates :
        /\ last_run.n \in 1..(MaxRuns - 1)
        /\ tree_changed.n < MaxChanges
        /\ disk[i] # st
        /\ [disk EXCEPT ![i] = st] \in Disks
        /\ disk' = [disk EXCEPT ![i] = st]
        /\ tree_changed' =
              [n |-> tree_changed.n + 1,
               added_or_removed |-> \/ tree_changed.added_or_removed
                                    \/ disk[i] = "absent"
                                    \/ st = "absent"]
        /\ UNCHANGED <<clock, dialog, drive_location, exclude_folders, file_types,
                       index_content, files, index_btn, update_index_btn,
                       index_status, index_progress, index_threads, last_run,
                       retrieveVars>>

\* after an indexing run the drive root goes away, comes back or changes
\* accessibility
ChangeRoot ==
    \E st \in FileStates :
        /\ last_run.n \in 1..(MaxRuns - 1)
        /\ tree_changed.n < MaxChanges
        /\ disk[Root] # st
        /\ disk' = [disk EXCEPT ![Root] = st]
        /\ tree_changed' =
              [n |-> tree_changed.n + 1,
               added_or_removed |-> \/ tree_changed.added_or_removed
                                    \/ disk[Root] = "absent"
                                    \/ st = "absent"]
        /\ UNCHANGED <<clock, dialog, drive_location, exclude_folders, file_types,
                       index_content, files, index_btn, update_index_btn,
                       index_status, index_progress, index_threads, last_run,
                       retrieveVars>>

(***************************************************************************)
(* SpecIndex: indexing runs one at a time (each run ends before the next   *)
(* button is pressed) over a tree and settings that change between runs.   *)
(***************************************************************************)
\* the retrieval tab when the application starts
InitSearch ==
    /\ csv_file_path = <<>>
    /\ search_account = <<>>
    /\ search_firstname = <<>>
    /\ search_lastname = <<>>

\* the rest of the retrieval tab when the application starts
InitRetrieveRest ==
    /\ date_from = <<>>
    /\ date_to = <<>>
    /\ retrieval_filters = TypeKeys
    /\ bulk_rename_prefix = TRUE
    /\ export_to_excel = TRUE
    /\ retrieve_btn = "normal"
    /\ retrieve_status = <<"ready">>
    /\ retrieve_progress = 0
    /\ retrieve_threads = 0
    /\ output = NoOutput
    /\ last_retrieval = NoRetrieval

InitRetrieveVars == InitSearch /\ InitRetrieveRest

\* the "Setup & Indexing" tab and the catalog when the application starts
\* for the first time
InitIndexVars ==
    /\ disk \in Disks
    /\ clock = 1
    /\ dialog = "none"
    /\ drive_location = RootDir
    /\ exclude_folders = <<>>
    /\ file_types = {PDF}
    /\ index_content = FALSE
    /\ files = <<>>
    /\ index_btn = "normal"
    /\ update_index_btn = "normal"
    /\ index_status = <<"ready">>
    /\ index_progress = 0
    /\ index_threads = <<>>
    /\ last_run = NoRun
    /\ tree_changed = NoChange

InitIndex == InitIndexVars /\ InitRetrieveVars

NextIndex ==
    \/ FullIndex
    \/ IncrementalIndex
    \/ ChangeTree
    \/ ChangeRoot

SpecIndex == InitIndex /\ [][NextIndex]_vars

\* the tree changes between the indexing run and the retrieval run
ChangeTreeBeforeRetrieval ==
    /\ last_retrieval.mode = "none"
    /\ ChangeTree

(***************************************************************************)
(* SpecRetrieve: one retrieval run over a catalog a full indexing run      *)
(* built, on a tree that may have changed since.  A run reads the catalog, *)
(* the tree and the entries of the retrieval tab and writes into a folder  *)
(* of its own, so a later run behaves as a first one does.                 *)
(***************************************************************************)
InitRetrieve ==
    \E dk \in Disks, ty \in TypeInputs :
        LET a == ThreadArgs(RootDir, ty.types, ty.content, FALSE)
            all == ScanDirectory(dk, a.directory, {}, a.extensions, FALSE, {})
        IN  /\ CanStartIndexing(dk, RootDir, ty.types)
            /\ disk = dk
            /\ clock = 1
            /\ dialog = "none"
            /\ drive_location = RootDir
            /\ exclude_folders = <<>>
            /\ file_types = ty.types
            /\ index_content = ty.content
            /\ files = IndexChunks(dk, all, 0, a.index_content, 1)
            /\ index_btn = "normal"
            /\ update_index_btn = "normal"
            /\ index_status = IF Len(all) = 0 THEN <<"no_files">>
                              ELSE <<"complete", Len(files)>>
            /\ index_progress = 0
            /\ index_threads = <<>>
            /\ last_run = [n |-> MaxRuns - 1, mode |-> "full", repeat |-> FALSE,
                           same_files |-> FALSE,
                           directory |-> a.directory, extensions |-> a.extensions,
                           exclude |-> {}, kept |-> 0,
                           visited |-> Range(Walk(dk, a.directory, {})),
                           before |-> <<>>, listable |-> TRUE]
            /\ tree_changed = NoChange
            /\ InitRetrieveVars

NextRetrieve ==
    \/ RetrievalRun
    \/ ChangeTreeBeforeRetrieval

SpecRetrieve == InitRetrieve /\ [][NextRetrieve]_vars

(***************************************************************************)
(* SpecUI: the buttons and the threads they start.  A press of a button    *)
(* runs its handler when the button is enabled; a thread started and not   *)
(* ended may end at any time, whatever other threads run.                  *)
(***************************************************************************)
\* a folder that is not on the drive
GoneDir == <<"/", "g">>

\* what the user may set on the "Setup & Indexing" tab while threads run:
\* the settings the application starts with, and each of them made wrong
IndexInputs ==
    LET I(dr, ty) == [drive_location |-> dr, file_types |-> ty]
    IN  { I(RootDir, {PDF}), I(<<" ">>, {PDF}), I(GoneDir, {PDF}), I(RootDir, {}) }

\* the user types the drive location and ticks the file types
EnterIndexSettings ==
    \E s \in IndexInputs :
        /\ drive_location' = s.drive_location
        /\ file_types' = s.file_types
        /\ UNCHANGED <<disk, clock, dialog, exclude_folders, index_content, files,
                       index_btn, update_index_btn, index_status, index_progress,
                       index_threads, last_run, tree_changed, retrieveVars>>

\* what the user searches for while threads run: nothing, a list that is
\* not there, an account
SearchInputs ==
    {t \in TermInputs : t.search_firstname = <<>> /\ t.search_lastname = <<>>
                         /\ t.search_account \in {<<>>, <<"1","2">>}}
    \cup {[csv_file_path |-> <<" ">>, search_account |-> <<>>,
           search_firstname |-> <<>>, search_lastname |-> <<" ">>]}

\* the user types into the search entries of the retrieval tab
EnterSearch ==
    \E t \in SearchInputs :
        /\ csv_file_path' = t.csv_file_path
        /\ search_account' = t.search_account
        /\ search_firstname' = t.search_firstname
        /\ search_lastname' = t.search_lastname
        /\ UNCHANGED <<disk, clock, dialog, indexVars, date_from, date_to,
                       retrieval_filters, bulk_rename_prefix, export_to_excel,
                       retrieve_btn, retrieve_status, retrieve_progress,
                       retrieve_threads, output, last_retrieval>>

\* the application starts on a tree of readable files
InitUI ==
    /\ InitIndex
    /\ disk[Root] = "ok"
    /\ \A i \in Pool : disk[i] = IF i \in 1..MaxFiles THEN "ok" ELSE "absent"

NextUI ==
    \/ start_indexing
    \/ start_incremental_indexing
    \/ \E t \in 1..Len(index_threads) : index_directory(t)
    \/ EnterSearch
    \/ start_retrieval
    \/ retrieve_documents

SpecUI == InitUI /\ [][NextUI]_vars

(***************************************************************************)
(* SpecRuns: the buttons and the threads with the entries of both tabs     *)
(* filled in and left alone.  The threads are scheduled: a thread that is  *)
(* started runs index_directory or retrieve_documents to its end.          *)
(***************************************************************************)
InitRuns ==
    /\ InitIndexVars
    /\ disk[Root] = "ok"
    /\ \A i \in Pool : disk[i] = IF i \in 1..MaxFiles THEN "ok" ELSE "absent"
    /\ csv_file_path = <<>>
    /\ search_account = <<"1","2">>
    /\ search_firstname = <<>>
    /\ search_lastname = <<>>
    /\ InitRetrieveRest

NextRuns ==
    \/ start_indexing
    \/ start_incremental_indexing
    \/ \E t \in 1..Len(index_threads) : index_directory(t)
    \/ start_retrieval
    \/ retrieve_documents

SpecRuns ==
    /\ InitRuns
    /\ [][NextRuns]_vars
    /\ WF_vars(\E t \in 1..Len(index_threads) : index_directory(t))
    /\ WF_vars(retrieve_documents)

(***************************************************************************)
(* SpecConfig: the user fills in the two tabs, rightly or wrongly, and     *)
(* presses one button at a time: a press while no thread runs, and the     *)
(* thread it starts ends before the next press.                            *)
(***************************************************************************)
\* no thread runs
Idle == index_threads = <<>> /\ retrieve_threads = 0

FullIndexRequest == Idle /\ start_indexing

IncrementalIndexRequest == Idle /\ start_incremental_indexing

RetrievalRequest == Idle /\ start_retrieval

NextConfig ==
    \/ EnterIndexSettings
    \/ EnterSearch
    \/ FullIndexRequest
    \/ IncrementalIndexRequest
    \/ RetrievalRequest
    \/ \E t \in 1..Len(index_threads) : index_directory(t)
    \/ retrieve_documents

SpecConfig == InitUI /\ [][NextConfig]_vars

(***************************************************************************)
(* Properties of the indexing engine.                                      *)
(***************************************************************************)
\* the number of files the last run reports as indexed
IndexedCount == IF Len(index_status) = 2 THEN index_status[2] ELSE 0

\* the rows the last run inserted
LastInserted == SubSeq(files, last_run.kept + 1, Len(files))

\* the directory names between root and the file of path, when path lies
\* below root
DirsBelow(root, path) ==
    IF Len(path) > Len(root) + 1 /\ SubSeq(path, 1, Len(root)) = root
                                /\ path[Len(root) + 1] = "/"
    THEN LET parts == Split(SubSeq(path, Len(root) + 2, Len(path)), "/")
         IN  {parts[i] : i \in 1..(Len(parts) - 1)}
    ELSE {}

\* path lies under a subdirectory of root whose lower-cased name is in E
UnderExcluded(root, path, E) == \E d \in DirsBelow(root, path) : Lower(d) \in E

\* the path of a file of the pool
PoolPath(i) == PathJoin(DirPath(RootDir, FilePool[i].dir), FilePool[i].name)

\* C1 as stated: an incremental run that follows an incremental run with
\* the same root, extensions and exclusions, no file having come or gone in
\* between, indexes zero files and leaves the number of records as it was.
C1_Original ==
    last_run.same_files => (IndexedCount = 0 /\ Len(files) = last_run.kept)

\* C1: an incremental run that repeats the previous incremental run (same
\* root, extensions and exclusions, in between no file has come or gone or
\* changed whether it can be read) indexes zero files and leaves the number
\* of records as the first run left it.
C1_IncrementalIdempotence ==
    last_run.repeat => (IndexedCount = 0 /\ Len(files) = last_run.kept)

\* a repeated incremental run over a tree whose first run indexed a file, and
\* which still finds a file to try (one that cannot be read)
C1_Witness ==
    /\ last_run.repeat
    /\ Len(files) > 0
    /\ index_status = <<"complete", 0>>

\* C2 as stated: after any run, full or incremental, no record of the catalog
\* lies under a subdirectory whose lower-cased name is in the exclusion set.
C2_Original ==
    last_run.mode # "none" =>
        \A k \in 1..Len(files) :
            ~UnderExcluded(last_run.directory, files[k].filepath, last_run.exclude)

\* C2 amended: no record a run inserts lies under an excluded subdirectory (so
\* after a full run no record of the catalog does), and the run visits no
\* directory that is, or lies below, an excluded subdirectory.
C2_ExclusionOfInserted ==
    last_run.mode # "none" =>
        /\ \A k \in 1..Len(LastInserted) :
              ~UnderExcluded(last_run.directory, LastInserted[k].filepath,
                             last_run.exclude)
        /\ \A d \in last_run.visited :
              \A j \in 1..Len(d) : Lower(d[j]) \notin last_run.exclude

\* an incremental run that inserted a row while a file with an allowed
\* extension sat in an excluded subdirectory, and that kept an earlier row
\* lying under that subdirectory
C2_Witness ==
    /\ last_run.mode = "incremental"
    /\ tree_changed.n = 0
    /\ Len(LastInserted) > 0
    /\ \E k \in 1..last_run.kept :
          UnderExcluded(last_run.directory, files[k].filepath, last_run.exclude)
    /\ \E i \in Present(disk) :
          /\ disk[i] = "ok"
          /\ Lower(Splitext(FilePool[i].name)[2]) \in last_run.extensions
          /\ UnderExcluded(last_run.directory, PoolPath(i), last_run.exclude)

\* C3: every record a run inserts has the lower-cased extension of its own
\* filepath, and that extension is one of the extensions given to the run.
C3_ExtensionClosure ==
    \A k \in 1..Len(LastInserted) :
        /\ LastInserted[k].file_extension = Lower(Splitext(LastInserted[k].filepath)[2])
        /\ LastInserted[k].file_extension \in last_run.extensions

\* a run that inserted a file whose name spells its extension in upper case,
\* while a file with another extension was on the drive
C3_Witness ==
    /\ tree_changed.n = 0
    /\ \E k \in 1..Len(LastInserted) :
          LastInserted[k].file_extension # Splitext(LastInserted[k].filepath)[2]
    /\ \E i \in Present(disk) :
          Lower(Splitext(FilePool[i].name)[2]) \notin last_run.extensions


(***************************************************************************)
(* Properties of the retrieval engine.                                     *)
(***************************************************************************)
\* the rows the last run processed, in processing order
Rows == last_retrieval.rows

SearchTermsOfRun == last_retrieval.search_terms

Completed == last_retrieval.mode = "complete"

\* the bytes the file of row k holds on the drive
OnDiskBytes(k) == FilePool[FileAt(disk, Rows[k].filepath)].bytes

SameBytes(i, k) ==
    Rows[i].readable /\ Rows[k].readable /\ OnDiskBytes(i) = OnDiskBytes(k)

\* row k is the first of the run with its bytes
FirstOfBytes(k) == ~\E i \in 1..(k - 1) : SameBytes(i, k)

\* the first row with the bytes of row k
FirstWithBytes(k) == SetMin({i \in 1..k : SameBytes(i, k)})

\* how many of the rows 1..k were copied, and how many were later
\* occurrences of their bytes
CopiedUpTo(k) == Cardinality({i \in 1..k : Rows[i].copied})

LaterUpTo(k) == Cardinality({i \in 1..k : Rows[i].readable /\ ~FirstOfBytes(i)})

\* the lines of MANIFEST.txt of one kind, in order
LinesOfKind(kind) ==
    SelectIdx(output.manifest_txt,
              {i \in 1..Len(output.manifest_txt) : output.manifest_txt[i].kind = kind})

\* row k is in the bundle and flagged duplicate in found_files.csv and in
\* MANIFEST.txt
CopiedAndFlagged(k, flag) ==
    /\ Rows[k].copied
    /\ [name |-> Rows[k].dest, source |-> Rows[k].filepath] \in output.bundle
    /\ Len(output.found_files) >= CopiedUpTo(k)
    /\ output.found_files[CopiedUpTo(k)].filepath = Rows[k].filepath
    /\ output.found_files[CopiedUpTo(k)].is_duplicate = flag
    /\ LinesOfKind("found")[CopiedUpTo(k)].b = flag

\* row k is listed in duplicates_detected.csv
ListedDuplicate(k) ==
    /\ "duplicates_detected.csv" \in output.written
    /\ Len(output.duplicates_detected) >= LaterUpTo(k)
    /\ output.duplicates_detected[LaterUpTo(k)] =
          [original |-> Rows[FirstWithBytes(k)].filename,
           duplicate |-> Rows[k].filename,
           search_term |-> Rows[k].search_term]

\* C4 as stated: of the matched rows with identical bytes on the drive every
\* one is copied, the first is not flagged and the later ones are flagged
\* and listed in duplicates_detected.csv
C4_Original ==
    Completed =>
        \A k \in 1..Len(Rows) :
            (\E j \in 1..Len(Rows) : j # k /\ SameBytes(j, k)) =>
                IF FirstOfBytes(k) THEN CopiedAndFlagged(k, FALSE)
                ELSE CopiedAndFlagged(k, TRUE) /\ ListedDuplicate(k)

\* C4: of the matched rows whose files can be read, the first with its bytes
\* is never flagged and never listed, every later one is listed in
\* duplicates_detected.csv whether its copy succeeds or not, and each one
\* whose copy succeeds is in the bundle, flagged in found_files.csv and in
\* MANIFEST.txt exactly when it is a later one
C4_DuplicateDetection ==
    Completed =>
        /\ \A k \in 1..Len(Rows) :
              Rows[k].readable =>
                 /\ Rows[k].copied => CopiedAndFlagged(k, ~FirstOfBytes(k))
                 /\ ~FirstOfBytes(k) => ListedDuplicate(k)
        /\ Len(output.duplicates_detected) = LaterUpTo(Len(Rows))

\* two files with the same bytes at different paths are matched and copied,
\* the later one flagged
C4_Witness ==
    /\ Completed
    /\ \E j, k \in 1..Len(Rows) :
          /\ j < k
          /\ SameBytes(j, k)
          /\ Rows[j].filepath # Rows[k].filepath
          /\ Rows[j].copied
          /\ CopiedAndFlagged(k, TRUE)

\* the rows of the run that were copied
Copies == SelectIdx(Rows, {k \in 1..Len(Rows) : Rows[k].copied})

\* name with _n before its extension
Suffixed(name, n) ==
    Splitext(name)[1] \o <<"_">> \o Str(n) \o Splitext(name)[2]

\* C5: every successful copy has its own row in found_files.csv and its own
\* file in the bundle, holding what was copied into it; of two copies with
\* the same computed destination name the later carries a suffix _n
C5_CollisionResolution ==
    Completed =>
        /\ Len(output.found_files) = Len(Copies)
        /\ \A i \in 1..Len(Copies) :
              /\ output.found_files[i].filepath = Copies[i].filepath
              /\ output.found_files[i].output_filename = Copies[i].dest
              /\ [name |-> Copies[i].dest, source |-> Copies[i].filepath]
                    \in output.bundle
        /\ Cardinality(output.bundle) = Len(Copies)
        /\ \A i, j \in 1..Len(Copies) :
              i < j =>
                 /\ Copies[i].dest # Copies[j].dest
                 /\ Copies[i].computed = Copies[j].computed =>
                       \E n \in 1..j : Copies[j].dest = Suffixed(Copies[j].computed, n)

\* copies collide within one term and across two terms, the last one of
\* them getting a suffix above 1
C5_Witness ==
    /\ Completed
    /\ \E i, j, k \in 1..Len(Copies) :
          /\ i < j /\ j < k
          /\ Copies[i].computed = Copies[j].computed
          /\ Copies[j].computed = Copies[k].computed
          /\ Copies[i].term_no = Copies[j].term_no
          /\ Copies[j].term_no # Copies[k].term_no
          /\ Copies[k].dest = Suffixed(Copies[k].computed, 2)

\* the terms of the run no row matched
MissingTerms ==
    SelectIdx(SearchTermsOfRun,
              {t \in 1..Len(SearchTermsOfRun) : last_retrieval.matched[t] = 0})

RECURSIVE SumSeq(_)
SumSeq(q) == IF q = <<>> THEN 0 ELSE Head(q) + SumSeq(Tail(q))

\* the index in MANIFEST.txt of the line that opens the block of term t
TermLine(t) ==
    CHOOSE i \in 1..Len(output.manifest_txt) :
        /\ output.manifest_txt[i].kind = "term"
        /\ Cardinality({h \in 1..i : output.manifest_txt[h].kind = "term"}) = t

\* C6: a term no row matched has no row processed and no file copied for
\* it, has the NOT FOUND line in its block of MANIFEST.txt, and is in
\* missing_media.csv; total_found is the sum of the matches of the other
\* terms
C6_MissingTerm ==
    Completed =>
        /\ \A t \in 1..Len(SearchTermsOfRun) :
              last_retrieval.matched[t] = 0 =>
                 /\ \A k \in 1..Len(Rows) : Rows[k].term_no # t
                 /\ output.manifest_txt[TermLine(t)].a = SearchTermsOfRun[t][2]
                 /\ output.manifest_txt[TermLine(t) + 1].kind = "not_found"
                 /\ "missing_media.csv" \in output.written
        /\ output.missing_media =
              [m \in 1..Len(MissingTerms) |->
                  [search_term |-> MissingTerms[m][2],
                   search_type |-> MissingTerms[m][1]]]
        /\ output.total_found =
              SumSeq(SelectIdx(last_retrieval.matched,
                               {t \in 1..Len(SearchTermsOfRun) :
                                   last_retrieval.matched[t] > 0}))

\* a run with a term that matched nothing between two terms that matched
C6_Witness ==
    /\ Completed
    /\ \E t \in 2..(Len(SearchTermsOfRun) - 1) :
          /\ last_retrieval.matched[t] = 0
          /\ last_retrieval.matched[t - 1] > 0
          /\ last_retrieval.matched[t + 1] > 0
          /\ Cardinality(output.bundle) > 0

\* C7: MANIFEST.txt has as many found-entry lines as found_files.csv has
\* data rows (none when the run writes no found_files.csv)
C7_ManifestCsvAgreement ==
    /\ Len(LinesOfKind("found")) = Len(output.found_files)
    /\ "found_files.csv" \notin output.written => Len(LinesOfKind("found")) = 0

\* a run with a copy, a failed copy and a missing term
C7_Witness ==
    /\ Completed
    /\ Len(LinesOfKind("found")) > 0
    /\ Len(LinesOfKind("error")) > 0
    /\ Len(LinesOfKind("not_found")) > 0

\* s contains sub, letter case apart
Contains(s, sub) ==
    \E i \in 0..(Len(s) - Len(sub)) :
        SubSeq(Lower(s), i + 1, i + Len(sub)) = Lower(sub)

\* record r matches the term as the specification words it
TermMatches(r, search_type, value) ==
    IF search_type = "account"
    THEN Contains(r.filename, value) \/ Contains(r.content_text, value)
    ELSE Contains(r.content_text, value)

\* the catalog records that match term t and have an allowed extension
Expected(t) ==
    SelectIdx(files,
              {k \in 1..Len(files) :
                  /\ files[k].file_extension
                        \in AllowedExtensions(retrieval_filters)
                  /\ TermMatches(files[k], SearchTermsOfRun[t][1],
                                 SearchTermsOfRun[t][2])})

\* the rows the run processed for term t
Selected(t) == SelectIdx(Rows, {k \in 1..Len(Rows) : Rows[k].term_no = t})

\* C8 as stated: with no date bound the rows selected for a term are the
\* catalog records with an allowed extension that contain the value, and
\* each selected record is copied
C8_QuerySemantics ==
    (Completed /\ date_from = <<>> /\ date_to = <<>>) =>
        \A t \in 1..Len(SearchTermsOfRun) :
            /\ [k \in 1..Len(Selected(t)) |-> Selected(t)[k].filepath]
                  = [k \in 1..Len(Expected(t)) |-> Expected(t)[k].filepath]
            /\ \A k \in 1..Len(Selected(t)) : Selected(t)[k].copied

(***************************************************************************)
(* Properties of the buttons and the threads.                              *)
(***************************************************************************)
\* C9 as stated: at most one index_directory run is in progress, so no
\* start handler launches a run while one is active
C9_AtMostOneIndexingRun == Len(index_threads) <= 1

\* C10: at most one retrieve_documents run is in progress; the "Retrieve
\* Documents" button is disabled while a run is in progress and enabled
\* when none is, however the last run ended
C10_AtMostOneRetrievalRun ==
    /\ retrieve_threads <= 1
    /\ retrieve_btn = "normal" <=> retrieve_threads = 0

\* a run is in progress after an earlier run ended with no search terms
C10_Witness ==
    /\ retrieve_threads = 1
    /\ retrieve_btn = "disabled"
    /\ last_retrieval.mode = "no_terms"

(***************************************************************************)
(* Properties of runs that meet errors, and of what a run leaves alone.    *)
(***************************************************************************)
\* the last index_directory run could not list its root
UnlistableRun == last_run.n > 0 /\ ~last_run.listable

\* C11: an indexing run, full or incremental, whose root cannot be listed
\* when it executes ends with the catalog as it was before the run: no
\* record deleted, none inserted
C11_TraversalErrorKeepsCatalog ==
    UnlistableRun => files = last_run.before

\* the part of C11 the code keeps: an incremental run whose root cannot be
\* listed leaves the catalog as it was and reports "No files found"
C11_IncrementalKeepsCatalog ==
    (UnlistableRun /\ last_run.mode = "incremental")
        => files = last_run.before /\ index_status = <<"no_files">>

\* what the status labels show while a run is under way, and once it ended
IndexInProgress == index_status[1] \in {"in_progress", "incremental_in_progress"}

IndexSuccess == index_status[1] = "complete" /\ Len(index_status) = 2

IndexFailure == index_status \in {<<"no_files">>, <<"error">>}

RetrieveInProgress == retrieve_status = <<"searching">>

RetrieveSuccess == retrieve_status[1] = "complete" /\ Len(retrieve_status) = 2

RetrieveFailure == retrieve_status \in {<<"no_terms">>, <<"error">>}

\* a step in which an index_directory / a retrieve_documents thread ends
IndexRunEnds == Len(index_threads') < Len(index_threads)

RetrieveRunEnds == retrieve_threads' < retrieve_threads

AddedByLastRun ==
    IF Len(files) >= Len(last_run.before)
    THEN SubSeq(files, Len(last_run.before) + 1, Len(files))
    ELSE <<>>

\* C13: an incremental run leaves every record that was in the catalog when
\* it started as it was, in every field, and inserts no record for a
\* filepath that was in the catalog, whatever happened to the file on disk
C13_IncrementalLeavesRecords ==
    last_run.mode = "incremental" =>
        /\ Len(files) >= Len(last_run.before)
        /\ SubSeq(files, 1, Len(last_run.before)) = last_run.before
        /\ \A k \in 1..Len(AddedByLastRun) :
              AddedByLastRun[k].filepath \notin ExistingFiles(last_run.before)

\* an incremental run over a catalog with a record whose file has since
\* gone from the drive, which added a record for another file
C13_Witness ==
    /\ last_run.mode = "incremental"
    /\ tree_changed.n = 0
    /\ \E k \in 1..Len(last_run.before) :
          FileAt(disk, last_run.before[k].filepath) = 0
    /\ AddedByLastRun # <<>>

\* C14: after indexing runs made one at a time, full and incremental in any
\* order, over a tree that changes between runs, no two records of the
\* catalog have the same filepath
C14_FilepathUnique ==
    \A i, j \in 1..Len(files) :
        files[i].filepath = files[j].filepath => i = j

\* an incremental run that followed another run, kept a record and added
\* one
C14_Witness ==
    /\ last_run.n >= 2
    /\ last_run.mode = "incremental"
    /\ last_run.kept >= 1
    /\ Len(files) > last_run.kept
    /\ index_status = <<"complete", Len(files) - last_run.kept>>

(***************************************************************************)
(* Properties of the date range, the manifest and the exports.             *)
(***************************************************************************)
\* the day of a date string or of a timestamp
DayOf(text) == CHOOSE d \in 0..9 : Str(d) = <<text[1]>>

\* a date bound is set
DateBounded == Strip(date_from) # <<>> \/ Strip(date_to) # <<>>

\* the days of the two bounds, the sentinel for a bound left empty
FromDay == IF Strip(date_from) # <<>> THEN DayOf(Strip(date_from)) ELSE FarPast

ToDay == IF Strip(date_to) # <<>> THEN DayOf(Strip(date_to)) ELSE FarFuture

\* the catalog records with an allowed extension that the query's LIKE
\* clause selects for term t and whose day of indexing is in days
InDays(t, days) ==
    SelectIdx(files,
              {k \in 1..Len(files) :
                  /\ files[k].file_extension
                        \in AllowedExtensions(retrieval_filters)
                  /\ Matches(files[k], SearchTermsOfRun[t][1],
                             SearchTermsOfRun[t][2], <<>>, <<>>)
                  /\ DayOf(files[k].indexed_at) \in days})

Paths(rows) == [k \in 1..Len(rows) |-> rows[k].filepath]

\* C15 as stated: with a date bound set, the rows kept for a term are the
\* records whose day of indexing lies in [date-from, date-to], both days
\* included
C15_InclusiveDateRange ==
    (Completed /\ DateBounded) =>
        \A t \in 1..Len(SearchTermsOfRun) :
            Paths(Selected(t)) = Paths(InDays(t, FromDay..ToDay))

\* what the code keeps: the day of date-from is included, the day of
\* date-to is not
C15_DateToDayExcluded ==
    (Completed /\ DateBounded) =>
        \A t \in 1..Len(SearchTermsOfRun) :
            Paths(Selected(t)) = Paths(InDays(t, FromDay..(ToDay - 1)))

\* C16 as stated: the name on the found line of each copied file is the
\* name of the file it was copied to, the output_filename of its
\* found_files.csv row, collision suffix included
C16_ManifestShowsDestination ==
    Completed =>
        /\ Len(LinesOfKind("found")) = Len(output.found_files)
        /\ \A k \in 1..Len(output.found_files) :
              LinesOfKind("found")[k].a = output.found_files[k].output_filename

\* what the code writes: the name computed before the collisions are
\* resolved
C16_ManifestShowsComputedName ==
    Completed =>
        /\ Len(LinesOfKind("found")) = Len(Copies)
        /\ \A k \in 1..Len(Copies) : LinesOfKind("found")[k].a = Copies[k].computed

\* the two conditional reports are written exactly when they have an entry
ConditionalReports ==
    /\ "missing_media.csv" \in output.written <=> output.missing_media # <<>>
    /\ "duplicates_detected.csv" \in output.written
          <=> output.duplicates_detected # <<>>

\* C17 as stated: every run that processes its terms to the end writes
\* found_files.csv, one data row per copied file, also when no file was
\* copied; only the other two reports are conditional
C17_FoundFilesUnconditional ==
    Completed =>
        /\ "found_files.csv" \in output.written
        /\ Len(output.found_files) = Len(Copies)
        /\ ConditionalReports

\* what the code writes: found_files.csv is conditional as well, written
\* exactly when a file was copied
C17_FoundFilesWhenCopied ==
    Completed =>
        /\ "found_files.csv" \in output.written <=> Copies # <<>>
        /\ Len(output.found_files) = Len(Copies)
        /\ ConditionalReports

\* a step in which a retrieve_documents run is made
RetrievalStep == last_retrieval' # last_retrieval \/ RetrieveRunEnds

\* C18: a retrieval run, whatever its terms, filters, copy failures and
\* outcome, leaves the records of the catalog and all their fields as they
\* were
C18_RetrievalReadOnly == [][RetrievalStep => files' = files]_vars

\* a completed run over a catalog of two records, one copied, one whose copy
\* failed
C18_Witness ==
    /\ Completed
    /\ Len(files) >= 2
    /\ Copies # <<>>
    /\ Len(LinesOfKind("error")) > 0

(***************************************************************************)
(* Properties of the requests the start handlers refuse.                   *)
(***************************************************************************)
\* the message boxes of the refused requests
IndexRefusals ==
    {"Please enter a drive location", "Drive location does not exist",
     "Please select at least one file type"}

\* the index settings are right: a root path is entered, it is on the
\* drive, and a file type is ticked
IndexSettingsRight ==
    /\ \E i \in 1..Len(drive_location) : drive_location[i] # " "
    /\ Strip(drive_location) = RootDir
    /\ disk[Root] # "absent"
    /\ file_types # {}

\* some search criterion is entered
SearchEntered ==
    \E e \in {csv_file_path, search_account, search_firstname, search_lastname} :
        \E i \in 1..Len(e) : e[i] # " "

\* the entries yield no search term: no account, no name, and no list that
\* is there to read terms from
NoTermEntered ==
    /\ \A e \in {search_account, search_firstname, search_lastname} :
          \A i \in 1..Len(e) : e[i] = " "
    /\ \/ ~CsvExists(Strip(csv_file_path))
       \/ \A i \in 1..Len(csv_file_path) : csv_file_path[i] = " "

\* C19: a request to index with an empty root path, a root path that does
\* not exist or no file type ticked starts no run and leaves the catalog as
\* it was; a request to retrieve with no criteria starts no run, and a
\* retrieval that yields no search term makes no output folder and copies
\* nothing
C19_ConfigurationErrorsRejected ==
    /\ [][Len(index_threads') > Len(index_threads) => IndexSettingsRight]_vars
    /\ [][(dialog' # dialog /\ dialog' \in IndexRefusals)
             => /\ ~IndexSettingsRight
                /\ files' = files
                /\ index_threads' = index_threads]_vars
    /\ [][retrieve_threads' > retrieve_threads => SearchEntered]_vars
    /\ [][(dialog' # dialog /\ dialog' = "Please provide search criteria")
             => /\ ~SearchEntered
                /\ retrieve_threads' = retrieve_threads
                /\ output' = output
                /\ files' = files]_vars
    /\ [][(RetrieveRunEnds /\ NoTermEntered)
             => /\ output' = NoOutput
                /\ last_retrieval'.mode = "no_terms"
                /\ files' = files]_vars

\* after a full run filled the catalog: a retrieval given only a list that
\* does not exist ended without an output folder, and a request to index a
\* folder that does not exist was refused
C19_Witness ==
    /\ Idle
    /\ Len(files) > 0
    /\ dialog = "Drive location does not exist"
    /\ drive_location = GoneDir
    /\ csv_file_path = CsvGonePath
    /\ last_retrieval.mode = "no_terms"
    /\ output = NoOutput

(***************************************************************************)
(* Properties of a full rebuild.                                           *)
(***************************************************************************)
\* a full run has completed and the tree is as that run found it
FullRunCompleted ==
    /\ last_run.mode = "full"
    /\ index_status[1] \in {"complete", "no_files"}
    /\ tree_changed.n = 0

\* the files of the tree that are outside the excluded subtrees, have an
\* allowed extension and whose indexing does not fail
Qualifying ==
    {PoolPath(i) : i \in {j \in Present(disk) :
        /\ ~UnderExcluded(last_run.directory, PoolPath(j), last_run.exclude)
        /\ Lower(Splitext(FilePool[j].name)[2]) \in last_run.extensions
        /\ ~StatFails(disk, PoolPath(j))}}

RunEndedOnThisTree ==
    /\ last_run.n > 0
    /\ index_status # <<"error">>
    /\ tree_changed.n = 0

\* the files the last run had to index: in a folder the walk reaches, with
\* an allowed extension and, for an incremental run, not in the catalog
\* before the run
QualifiedForLastRun ==
    {PoolPath(i) : i \in {j \in Present(disk) :
        /\ last_run.directory = RootDir
        /\ disk[Root] = "ok"
        /\ ~UnderExcluded(last_run.directory, PoolPath(j), last_run.exclude)
        /\ Lower(Splitext(FilePool[j].name)[2]) \in last_run.extensions
        /\ last_run.mode = "incremental"
              => PoolPath(j) \notin Range(Paths(last_run.before))}}

\* C21: a run for which no file qualifies ends as "No files found" (and
\* only such a run does) and has inserted nothing: after an incremental run
\* the catalog is what it was before the run, after a full run it is empty
C21_ZeroQualifyingFiles ==
    /\ RunEndedOnThisTree =>
          (QualifiedForLastRun = {} <=> index_status = <<"no_files">>)
    /\ index_status = <<"no_files">> =>
          /\ IndexedCount = 0
          /\ last_run.mode = "incremental" => files = last_run.before
          /\ last_run.mode = "full" => files = <<>>

\* an incremental run over a catalog that holds records found no new file
C21_Witness ==
    /\ RunEndedOnThisTree
    /\ index_status = <<"no_files">>
    /\ last_run.mode = "incremental"
    /\ QualifiedForLastRun = {}
    /\ Len(files) > 0
    /\ files = last_run.before

(***************************************************************************)
(* Properties of the loop over the search terms.                           *)
(***************************************************************************)
\* the lines of one kind in MANIFEST.txt, in file order
ManifestLines(kind) ==
    SelectIdx(output.manifest_txt,
              {k \in 1..Len(output.manifest_txt) : output.manifest_txt[k].kind = kind})

FailedCopies == SelectIdx(Rows, {k \in 1..Len(Rows) : ~Rows[k].copied})

\* C22: in a completed retrieval run every search term is processed once,
\* in list order, and the count of processed terms at the end is the number
\* of terms; every row a term selected is processed whatever happened to
\* the rows before it; a failed copy adds one error line to the manifest
\* and no row to found_files.csv
C22_FailuresAreLocal ==
    Completed =>
        /\ ManifestLines("term") =
              [t \in 1..Len(SearchTermsOfRun) |->
                  Line("term", SearchTermsOfRun[t][2], SearchTermsOfRun[t][1])]
        /\ last_retrieval.processed = Len(SearchTermsOfRun)
        /\ Len(last_retrieval.matched) = Len(SearchTermsOfRun)
        /\ \A t \in 1..Len(SearchTermsOfRun) :
              Len(Selected(t)) = last_retrieval.matched[t]
        /\ \A k \in 1..(Len(Rows) - 1) : Rows[k].term_no <= Rows[k + 1].term_no
        /\ Len(ManifestLines("error")) = Len(FailedCopies)
        /\ Len(ManifestLines("found")) = Len(Copies)
        /\ Len(output.found_files) = Len(Copies)
        /\ \A k \in 1..Len(FailedCopies) :
              \A i \in 1..Len(output.found_files) :
                  ~ /\ output.found_files[i].filepath = FailedCopies[k].filepath
                    /\ output.found_files[i].search_term = FailedCopies[k].search_term

\* the first row of the first term could not be copied, the next row of
\* that term was copied, and a second term was processed after it
C22_Witness ==
    /\ Completed
    /\ Len(SearchTermsOfRun) = 2
    /\ Len(Rows) >= 3
    /\ Rows[1].term_no = 1 /\ ~Rows[1].copied
    /\ Rows[2].term_no = 1 /\ Rows[2].copied
    /\ Rows[Len(Rows)].term_no = 2
    /\ last_retrieval.processed = 2

(***************************************************************************)
(* SpecBatches: one full indexing run taken step by step through the chunk *)
(* loop of index_directory, over a folder of numbered files large enough   *)
(* for several chunks.  The thread's record in index_threads holds the     *)
(* locals of index_directory and the history of its commits and reports.   *)
(***************************************************************************)
MaxBatchFiles == 101

\* file n of the big folder
BatchName(n) == Str(n) \o <<".">> \o PDF

BatchPath(n) == PathJoin(RootDir, BatchName(n))

\* how many files the folder holds
BatchTotals == {0, 1, chunk_size, chunk_size + 1, MaxBatchFiles}

\* which of them cannot be read
BatchLocked(total) ==
    {{}, {1} \cap (1..total), {chunk_size, chunk_size + 1} \cap (1..total),
     (total..total) \cap (1..total), 1..total}

\* the big folders: entry Root is the folder, entry n its file n
BatchDisks ==
    UNION {{[n \in 0..total |-> IF n \in locked THEN "locked" ELSE "ok"] :
               locked \in BatchLocked(total)} : total \in BatchTotals}

BatchFiles(dk) == (DOMAIN dk) \ {Root}

\* all_files for the big folder: os.walk lists the one directory, and the
\* files with a selected extension are queued unless an incremental run
\* finds them in the catalog
BatchScan(dk, a, existing_files) ==
    LET names == [n \in 1..Cardinality(BatchFiles(dk)) |-> BatchName(n)]
    IN  IF CanList(dk, a.directory)
        THEN ScanFiles(a.directory, names, a.extensions, a.incremental,
                       existing_files)
        ELSE <<>>

\* the file of the big folder at a path
BatchFileAt(dk, filepath) == CHOOSE n \in BatchFiles(dk) : BatchPath(n) = filepath

\* whether os.path.getsize(filepath) raises in the big folder
BatchStatFails(dk, filepath) == dk[BatchFileAt(dk, filepath)] # "ok"

\* the row inserted for a file of the big folder (the files are empty)
BatchRecord(filepath, now) ==
    [filename |-> Basename(filepath),
     filepath |-> filepath,
     file_extension |-> Lower(Splitext(Basename(filepath))[2]),
     file_size |-> 0,
     content_text |-> <<>>,
     indexed_at |-> IsoFormat(now)]

\* mutant of ChunkEnd: the first chunk is the whole list
ChunkEnd_WholeList(i, total_files) == total_files

\* the end of all_files[i:i + chunk_size]
ChunkEnd(i, total_files) ==
    IF i + chunk_size < total_files THEN i + chunk_size ELSE total_files

\* the thread has entered index_directory
Entered(th) == "pc" \in DOMAIN th

\* index_directory up to the chunk loop: the clear of a full run, the scan,
\* and the return when nothing was found
BeginRun ==
    /\ Len(index_threads) = 1
    /\ ~Entered(index_threads[1])
    /\ LET a     == index_threads[1]
           kept  == KeptRows(files, a.incremental)
           all   == BatchScan(disk, a, Baseline(files, a.incremental))
       IN  /\ files' = kept
           /\ IF Len(all) = 0
              THEN /\ index_status' = <<"no_files">>
                   /\ index_btn' = "normal"
                   /\ update_index_btn' = "normal"
                   /\ index_threads' = <<>>
              ELSE /\ index_status' = <<"scanning">>
                   /\ index_threads' =
                         <<[directory |-> a.directory,
                            extensions |-> a.extensions,
                            index_content |-> a.index_content,
                            incremental |-> a.incremental,
                            pc |-> "file",
                            all_files |-> all,
                            i |-> 0,
                            j |-> 0,
                            indexed_count |-> 0,
                            inserted |-> <<>>,
                            kept |-> Len(kept),
                            commits |-> 0,
                            reports |-> <<>>]>>
                   /\ UNCHANGED <<index_btn, update_index_btn>>
    /\ index_progress' = 0
    /\ UNCHANGED <<disk, clock, dialog, drive_location, exclude_folders,
                   file_types, index_content, last_run, tree_changed,
                   retrieveVars>>

\* the body of "for filepath in chunk" for the next file of the chunk
IndexFile ==
    /\ Len(index_threads) = 1
    /\ Entered(index_threads[1])
    /\ index_threads[1].pc = "file"
    /\ LET th       == index_threads[1]
           filepath == th.all_files[th.j + 1]
           last     == th.j + 1 = ChunkEnd(th.i, Len(th.all_files))
           next     == [th EXCEPT !.j = @ + 1,
                                  !.pc = IF last THEN "commit" ELSE "file"]
       IN  index_threads' =
              <<IF BatchStatFails(disk, filepath) THEN next
                ELSE [next EXCEPT !.inserted =
                                      Append(@, BatchRecord(filepath, clock)),
                                  !.indexed_count = @ + 1]>>
    /\ UNCHANGED <<disk, clock, dialog, drive_location, exclude_folders,
                   file_types, index_content, files, index_btn, update_index_btn,
                   index_status, index_progress, last_run, tree_changed,
                   retrieveVars>>

\* the end of a chunk: self.conn.commit() and the progress update
EndChunk ==
    /\ Len(index_threads) = 1
    /\ Entered(index_threads[1])
    /\ index_threads[1].pc = "commit"
    /\ LET th          == index_threads[1]
           total_files == Len(th.all_files)
       IN  /\ files' = files \o th.inserted
           /\ index_progress' = (th.indexed_count * 100) \div total_files
           /\ index_status' = <<"indexed", th.indexed_count, total_files>>
           /\ index_threads' =
                 <<[th EXCEPT
                      !.inserted = <<>>,
                      !.commits = @ + 1,
                      !.reports = Append(@, [indexed_count |-> th.indexed_count,
                                             total_count |-> total_files,
                                             chunk |-> th.j - th.i,
                                             committed |-> Len(files') - th.kept]),
                      !.i = @ + chunk_size,
                      !.pc = IF th.i + chunk_size < total_files
                             THEN "file" ELSE "complete"]>>
    /\ UNCHANGED <<disk, clock, dialog, drive_location, exclude_folders,
                   file_types, index_content, index_btn, update_index_btn,
                   last_run, tree_changed, retrieveVars>>

\* after the last chunk: "Complete! Indexed n files" and the finally block
CompleteRun ==
    /\ Len(index_threads) = 1
    /\ Entered(index_threads[1])
    /\ index_threads[1].pc = "complete"
    /\ index_status' = <<"complete", index_threads[1].indexed_count>>
    /\ index_btn' = "normal"
    /\ update_index_btn' = "normal"
    /\ index_progress' = 0
    /\ index_threads' = <<>>
    /\ UNCHANGED <<disk, clock, dialog, drive_location, exclude_folders,
                   file_types, index_content, files, last_run, tree_changed,
                   retrieveVars>>

InitBatches ==
    /\ disk \in BatchDisks
    /\ clock = 1
    /\ dialog = "none"
    /\ drive_location = RootDir
    /\ exclude_folders = <<>>
    /\ file_types = {PDF}
    /\ index_content = FALSE
    /\ files = <<>>
    /\ index_btn = "normal"
    /\ update_index_btn = "normal"
    /\ index_status = <<"ready">>
    /\ index_progress = 0
    /\ index_threads = <<>>
    /\ last_run = NoRun
    /\ tree_changed = NoChange
    /\ InitRetrieveVars

NextBatches ==
    \/ start_indexing
    \/ BeginRun
    \/ IndexFile
    \/ EndChunk
    \/ CompleteRun

SpecBatches == InitBatches /\ [][NextBatches]_vars

(***************************************************************************)
(* Properties of the chunk loop.                                           *)
(***************************************************************************)
\* the reports of the run in progress
Reports == index_threads[1].reports

\* the chunks begun so far, from the number of files processed
ChunksBegun == (index_threads[1].j + chunk_size - 1) \div chunk_size

\* the chunks whose end the run has passed: inside a chunk and at its last
\* file the chunk begun last has not ended
ChunksEnded ==
    IF index_threads[1].pc = "complete" THEN ChunksBegun
    ELSE IF index_threads[1].pc = "commit" THEN ChunksBegun - 1
    ELSE index_threads[1].j \div chunk_size

\* C23: the queued files are processed in consecutive chunks of at most 50
\* files; each chunk is followed by one commit and one progress report;
\* over the reports of a run indexed_count never decreases, never exceeds
\* total_count and is the number of records the run has committed
C23_BatchCommitAndProgress ==
    (Len(index_threads) = 1 /\ Entered(index_threads[1])) =>
        LET th == index_threads[1]
            total_files == Len(th.all_files)
        IN  /\ th.j - th.i <= chunk_size
            /\ th.pc \in {"commit", "complete"} =>
                  (th.j = total_files \/ th.j % chunk_size = 0)
            /\ \A k \in 1..Len(Reports) :
                  /\ Reports[k].chunk \in 1..chunk_size
                  /\ k < Len(Reports) => Reports[k].chunk = chunk_size
                  /\ Reports[k].indexed_count <= Reports[k].total_count
                  /\ Reports[k].total_count = total_files
                  /\ Reports[k].indexed_count = Reports[k].committed
                  /\ k > 1 => Reports[k - 1].indexed_count <= Reports[k].indexed_count
            /\ th.commits = Len(Reports)
            /\ Len(Reports) = ChunksEnded
            /\ Len(files) - th.kept =
                  IF Reports = <<>> THEN 0 ELSE Reports[Len(Reports)].indexed_count
            /\ th.pc = "complete" =>
                  /\ th.j = total_files
                  /\ index_status = <<"indexed", th.indexed_count, total_files>>
                  /\ th.indexed_count = Len(files) - th.kept

\* a run over 101 files has ended its third chunk; files of the first and
\* the second chunk could not be indexed
C23_Witness ==
    /\ Len(index_threads) = 1
    /\ Entered(index_threads[1])
    /\ index_threads[1].pc = "complete"
    /\ Len(index_threads[1].all_files) = MaxBatchFiles
    /\ Len(Reports) = 3
    /\ Reports[1].indexed_count = chunk_size - 1
    /\ Reports[2].indexed_count = 2 * chunk_size - 2
    /\ Reports[3].indexed_count = MaxBatchFiles - 2
    /\ Len(files) = MaxBatchFiles - 2

(***************************************************************************)
(* Properties of the totals of a retrieval run.                            *)
(***************************************************************************)
\* the total in the SUMMARY line of MANIFEST.txt
SummaryTotal == ManifestLines("summary")[1].a

\* C24 as stated: the total the summary line and the final status report
\* is the number of files copied into the output folder, which is the
\* number of data rows of found_files.csv
C24_TotalEqualsCopied ==
    Completed =>
        /\ SummaryTotal = Len(output.found_files)
        /\ retrieve_status = <<"complete", Len(output.found_files)>>
        /\ Len(output.found_files) = Cardinality(output.bundle)

\* what the code keeps: the total is the number of rows the terms selected,
\* copied or not, and found_files.csv has one row per copied file
C24_TotalCountsSelectedRows ==
    Completed =>
        /\ SummaryTotal = Len(Rows)
        /\ retrieve_status = <<"complete", Len(Rows)>>
        /\ Len(output.found_files) = Len(Copies)
        /\ Len(output.found_files) = Cardinality(output.bundle)
        /\ Len(Rows) = Len(Copies) + Len(FailedCopies)

\* the rows of found_files.csv flagged as duplicates
FlaggedFound ==
    SelectIdx(output.found_files,
              {k \in 1..Len(output.found_files) : output.found_files[k].is_duplicate})

\* the rows of the run detected as duplicates, copied or not
DetectedRows == SelectIdx(Rows, {k \in 1..Len(Rows) : Rows[k].is_duplicate})

\* C25 as stated: duplicates_detected.csv has as many entries as
\* found_files.csv has rows flagged is_duplicate, and the count of
\* duplicates in MANIFEST.txt is that number
C25_DuplicatesAreCopied ==
    Completed =>
        /\ Len(output.duplicates_detected) = Len(FlaggedFound)
        /\ ManifestLines("duplicates") # <<>> =>
              ManifestLines("duplicates")[1].a = Len(FlaggedFound)

\* what the code keeps: a duplicate is listed when its hash is found, before
\* the copy is tried, so the list counts the detected rows and is at least
\* the number of flagged rows of found_files.csv
C25_DuplicatesAreDetectedRows ==
    Completed =>
        /\ Len(output.duplicates_detected) = Len(DetectedRows)
        /\ Len(FlaggedFound) =
              Len(SelectIdx(DetectedRows,
                            {k \in 1..Len(DetectedRows) : DetectedRows[k].copied}))
        /\ Len(FlaggedFound) <= Len(output.duplicates_detected)

(***************************************************************************)
(* Properties of the search terms.                                         *)
(***************************************************************************)
\* the terms of the run that were read from the CSV list: they come first
CsvTermCount ==
    Len(SearchTermsOfRun)
      - (IF Strip(search_account) # <<>> THEN 1 ELSE 0)
      - (IF Strip(search_firstname) # <<>> \/ Strip(search_lastname) # <<>>
         THEN 1 ELSE 0)

\* the records of the catalog a retrieval may copy at all
AllowedRecords ==
    SelectIdx(files, {k \in 1..Len(files) :
                        files[k].file_extension \in AllowedExtensions(retrieval_filters)})

\* C26 as stated: every term that retrieve_documents queries has a value
\* that is not empty
C26_NoBlankTerm ==
    Completed =>
        \A t \in 1..Len(SearchTermsOfRun) : SearchTermsOfRun[t][2] # <<>>

\* what the code keeps: the terms from the account and the name entries are
\* never empty, and an empty term, which only a CSV row gives, selects
\* every record with an allowed extension when no date is set
C26_BlankTermOnlyFromCsv ==
    Completed =>
        \A t \in 1..Len(SearchTermsOfRun) :
            /\ t > CsvTermCount => SearchTermsOfRun[t][2] # <<>>
            /\ (SearchTermsOfRun[t][2] = <<>> /\ ~DateBounded) =>
                  last_retrieval.matched[t] = Len(AllowedRecords)

====
